---- MODULE Spec2Model ----
(***************************************************************************)
(* Model of the gateway-service of U-chat-server: the WebSocket handshake  *)
(* (ws_handler), the duplex session (handle_socket and its forward task),  *)
(* the room and connection registries (AppState) and the rate limiter.     *)
(*                                                                         *)
(* Concurrency.  The gateway runs on the multi-threaded tokio runtime, so  *)
(* the synchronous statements of two handlers interleave at every access   *)
(* to a shared map.  Each access to a DashMap (entry().or_insert_with,     *)
(* insert, remove, get_mut) is atomic; a sequence of two accesses is not.  *)
(* JoinHandle::abort() only schedules the cancellation of the forward      *)
(* task: the task's locals (its broadcast receiver) are dropped when the   *)
(* runtime next polls the task, which may be before or after the aborting  *)
(* handler's following statements.                                         *)
(***************************************************************************)
EXTENDS Integers, Sequences, FiniteSets, TLC

\* ------------------------------------------------------------------ bounds
\* Number of client slots (clients that may attempt handshakes).
NSess == 3
\* Number of clients in the runs with the sweep and in the runs with frames.
NPairSess == 2
\* Number of text and binary frames admitted in one run.
MaxMsgs == 3
\* Number of clock advances in one run.
MaxTicks == 1
\* Largest rate (admissions per window) the limiter is exercised with on
\* its own, and number of direct checks of one key.
MaxRate == 2
MaxChecks == 5
\* Number of rate-limit denials (address, user or message) recorded in one
\* run.
MaxHits == 1
MaxElems == 3
\* Capacity requested for each room channel (scaled down from the
\* program's CHANNEL_CAPACITY = 100, src/gateway-service/src/state.rs:25).
CHANNEL_CAPACITY == 2
\* RateLimitConfig values (scaled down from the defaults 60 / 30 / 50 / 2).
IpConnectionsPerMinute == 1
UserConnectionsPerMinute == 1
MessagesPerSecond == 1
BurstMultiplier == 2

\* ------------------------------------------------------- program constants
\* Time is counted in milliseconds.
SecondMs == 1000
MinuteMs == 60000

Sess == 1..NSess
NoConn == -1
NoChan == 0
NoBucket == -1

Max(a, b) == IF a >= b THEN a ELSE b

\* ------------------------------------------------------------ text helpers
\* A header value is a sequence of one-character strings.
IsSpace(c) == c = " "

LowerCase(c) ==
    CASE c = "B" -> "b"
      [] c = "E" -> "e"
      [] c = "A" -> "a"
      [] c = "R" -> "r"
      [] OTHER -> c

RECURSIVE SplitAcc(_, _, _)
SplitAcc(s, cur, acc) ==
    IF s = <<>> THEN Append(acc, cur)
    ELSE IF Head(s) = "," THEN SplitAcc(Tail(s), <<>>, Append(acc, cur))
    ELSE SplitAcc(Tail(s), Append(cur, Head(s)), acc)

\* str::split(','): "" yields one empty part, "a," yields "a" and "".
SplitComma(s) == SplitAcc(s, <<>>, <<>>)

RECURSIVE TrimStart(_)
TrimStart(s) ==
    IF s # <<>> /\ IsSpace(Head(s)) THEN TrimStart(Tail(s)) ELSE s

RECURSIVE TrimEnd(_)
TrimEnd(s) ==
    IF s # <<>> /\ IsSpace(s[Len(s)]) THEN TrimEnd(SubSeq(s, 1, Len(s) - 1)) ELSE s

Trim(s) == TrimEnd(TrimStart(s))

EqIgnoreAsciiCase(a, b) ==
    /\ Len(a) = Len(b)
    /\ \A i \in 1..Len(a) : LowerCase(a[i]) = LowerCase(b[i])

Bearer == <<"b", "e", "a", "r", "e", "r">>

\* An extract_token_from_protocol that returns the second element whatever
\* the first one is.
extract_token_any_marker(header) ==
    LET parts == [i \in 1..Len(SplitComma(header)) |-> Trim(SplitComma(header)[i])]
    IN  IF Len(parts) >= 2 THEN parts[2]
        ELSE IF /\ Len(parts) = 1
                /\ ~EqIgnoreAsciiCase(parts[1], Bearer)
                /\ parts[1] # <<>>
             THEN parts[1]
        ELSE <<>>

\* extract_token_from_protocol: the token of "bearer, <token>" or a bare
\* token; the empty string otherwise.
extract_token_from_protocol(header) ==
    LET parts == [i \in 1..Len(SplitComma(header)) |-> Trim(SplitComma(header)[i])]
    IN  IF Len(parts) >= 2 /\ EqIgnoreAsciiCase(parts[1], Bearer) THEN parts[2]
        ELSE IF /\ Len(parts) = 1
                /\ ~EqIgnoreAsciiCase(parts[1], Bearer)
                /\ parts[1] # <<>>
             THEN parts[1]
        ELSE <<>>

\* ------------------------------------------------------- token validation
\* TokenService::validate and Claims::room_id of the jwt-common crate: a
\* table from the tokens the service signed to their claims.
TokA == <<"A">>
TokB == <<"B">>
TokC == <<"C">>
TokBad == <<"X">>

Users == {"u1", "u2"}
RoomIds == {"R1", "R2"}

IsValidToken(token) == token \in {TokA, TokB, TokC}

Validate(token) ==
    CASE token = TokA -> [sub |-> "u1", room |-> "R1"]
      [] token = TokB -> [sub |-> "u2", room |-> "R1"]
      [] token = TokC -> [sub |-> "u2", room |-> "R2"]

\* ---------------------------------------------------------------- requests
IPs == {"ip1", "ip2"}
NoOrigin == "none"
Origins == {NoOrigin, "https://good.example", "https://evil.example"}
allowed_origins == <<"https://good.example">>

Headers ==
    { <<>>,
      Bearer,
      Bearer \o <<",", " ">> \o TokA,
      <<"B", "e", "a", "r", "e", "r", ",">> \o TokB,
      TokC,
      Bearer \o <<",", " ">> \o TokBad }

Requests == [ip : IPs, origin : Origins, protocol : Headers]

\* Header values by shape: up to MaxElems comma-separated elements, each an
\* empty string, the bearer marker in lower or mixed case, a signed token
\* or an unsigned one, written with or without surrounding blanks.
Cores == {<<>>, Bearer, <<"B", "e", "a", "r", "e", "r">>, TokA, TokBad}

Elements == [core : Cores, padded : BOOLEAN]

Shapes == UNION {[1..n -> Elements] : n \in 1..MaxElems}

ElementText(el) ==
    IF el.padded THEN <<" ">> \o el.core \o <<" ">> ELSE el.core

RECURSIVE HeaderOf(_)
HeaderOf(shape) ==
    IF Len(shape) = 1 THEN ElementText(shape[1])
    ELSE ElementText(shape[1]) \o <<",">> \o HeaderOf(Tail(shape))

HeaderShapes == {HeaderOf(sh) : sh \in Shapes}

\* An is_origin_allowed without the empty-list case.
is_origin_allowed_strict(origins, origin) ==
    \E i \in 1..Len(origins) : origins[i] = origin

\* An is_origin_allowed that lets every origin through.
is_origin_allowed_any(origins, origin) == TRUE

\* AppState::is_origin_allowed
is_origin_allowed(origins, origin) ==
    IF origins = <<>> THEN TRUE
    ELSE \E i \in 1..Len(origins) : origins[i] = origin

\* ------------------------------------------------------------------- state
VARIABLES
    config,         \* RateLimiter.config: the RateLimitConfig in force
    verdicts,       \* what each direct call of a check_* returned, per key
    now,            \* the clock, in ms
    ticks,          \* clock advances so far
    pc,             \* pc[s]: position of slot s's handler
    h,              \* h[s]: locals of ws_handler / handle_socket of slot s
    resp,           \* the last handshake response ws_handler returned
    fwd,            \* fwd[s]: state of the forward task of slot s
    rx,             \* rx[s]: the forward task's broadcast receiver
    rooms,          \* AppState.rooms: room id -> channel (NoChan: absent)
    chans,          \* every channel created so far, by channel number
    connections,    \* AppState.connections: connection id -> ConnectionInfo
    CONNECTION_COUNTER,
    ip_limiters,
    user_limiters,
    message_limiters,
    metrics,        \* metric counters and gauges
    inbox,          \* inbox[s]: messages written to slot s's socket
    sweep           \* rooms_to_remove of a running cleanup_empty_rooms

vars == <<config, verdicts, now, ticks, pc, h, resp, fwd, rx, rooms, chans, connections,
          CONNECTION_COUNTER, ip_limiters, user_limiters, message_limiters,
          metrics, inbox, sweep>>

NoLocals == [user |-> "", room |-> "", conn |-> NoConn, sender |-> NoChan]
NoResp == [status |-> 0, reason |-> ""]
NoRx == [chan |-> NoChan, next |-> 0]

\* RateLimitConfig::default(), with the scaled-down rates.
DefaultConfig ==
    [ip_connections_per_minute |-> IpConnectionsPerMinute,
     user_connections_per_minute |-> UserConnectionsPerMinute,
     messages_per_second |-> MessagesPerSecond,
     burst_multiplier |-> BurstMultiplier,
     allowed_origins |-> allowed_origins]

\* The configurations the limiter is exercised with on its own: one rate
\* for the three families and a burst multiplier from 1 (no burst) up.
Configs ==
    {[ip_connections_per_minute |-> n,
      user_connections_per_minute |-> n,
      messages_per_second |-> n,
      burst_multiplier |-> b,
      allowed_origins |-> allowed_origins] :
        n \in 1..MaxRate, b \in 1..BurstMultiplier}

\* The allow-lists AppState::new is given: the deployment's list, or an
\* empty one.
OriginLists == {<<>>, allowed_origins}

\* Connection ids used as keys when check_message is called directly.
ConnKeys == {0, 1}

NoVerdicts ==
    [ip |-> [i \in IPs |-> <<>>],
     user |-> [u \in Users |-> <<>>],
     message |-> [c \in ConnKeys |-> <<>>],
     shape |-> <<>>,
     token |-> <<>>]

\* AppState::new and RateLimiter::with_config(cfg).
BootWith(cfg, v) ==
    /\ config = cfg
    /\ verdicts = v
    /\ now = 0
    /\ ticks = 0
    /\ pc = [s \in Sess |-> "idle"]
    /\ h = [s \in Sess |-> NoLocals]
    /\ resp = NoResp
    /\ fwd = [s \in Sess |-> "none"]
    /\ rx = [s \in Sess |-> NoRx]
    /\ rooms = [r \in RoomIds |-> NoChan]
    /\ chans = <<>>
    /\ connections = <<>>
    /\ CONNECTION_COUNTER = 0
    /\ ip_limiters = [i \in IPs |-> NoBucket]
    /\ user_limiters = [u \in Users |-> NoBucket]
    /\ message_limiters = <<>>
    /\ metrics = [rooms_created |-> 0, rooms_destroyed |-> 0,
                  connections_active |-> 0, messages_sent |-> 0,
                  messages_received |-> 0, rate_limit_hits |-> 0]
    /\ inbox = [s \in Sess |-> <<>>]
    /\ sweep = {}

Boot(cfg) == BootWith(cfg, NoVerdicts)

Init == Boot(DefaultConfig)

\* ------------------------------------------------------------ rate limiter
\* Quota::per_minute(n) / per_second(n): one cell is replenished every
\* period / n; allow_burst(b) sets the burst size.
ReplenishIp == MinuteMs \div config.ip_connections_per_minute
ReplenishUser == MinuteMs \div config.user_connections_per_minute
ReplenishMsg == SecondMs \div config.messages_per_second
\* A burst size that ignores the multiplier.
BurstIpRateOnly == config.ip_connections_per_minute

BurstIp == config.ip_connections_per_minute * config.burst_multiplier
BurstUser == config.user_connections_per_minute * config.burst_multiplier
BurstMsg == config.messages_per_second * config.burst_multiplier

\* A fresh limiter that starts one cell early.
GcraTatFromNow(tat, t0, t) == IF tat = NoBucket THEN t0 ELSE tat

\* limiter.check() of a direct governor limiter (GCRA).  tat is the stored
\* theoretical arrival time, NoBucket when the key has no limiter yet.
GcraTat(tat, t0, t) == IF tat = NoBucket THEN t0 + t ELSE tat

\* A limiter that never looks at the clock: the quota of the first window
\* is all a key ever gets.
GcraAllowedFrozen(tat, t0, t, burst) ==
    tat = NoBucket \/ tat - t * burst <= 0

GcraAllowed(tat, t0, t, burst) ==
    t0 >= Max(GcraTat(tat, t0, t) - t * burst, 0)

GcraNext(tat, t0, t, burst) ==
    IF GcraAllowed(tat, t0, t, burst)
    THEN Max(GcraTat(tat, t0, t), t0) + t
    ELSE GcraTat(tat, t0, t)

\* ------------------------------------------------------------- registries
\* Sender::receiver_count(): the live receivers of channel c.
receiver_count(c) == Cardinality({s \in Sess : rx[s].chan = c})

\* A get_or_create_room that inserts a new channel without looking the
\* room up first.
get_or_create_room_always_new(rs, cs, r) ==
    [sender |-> Len(cs) + 1,
     rooms |-> [rs EXCEPT ![r] = Len(cs) + 1],
     chans |-> Append(cs, [room |-> r, log |-> <<>>]),
     created |-> 1]

\* AppState::get_or_create_room: rooms.entry(id).or_insert_with(new channel),
\* one atomic DashMap access.  Yields the handle and the new registry.
get_or_create_room(rs, cs, r) ==
    IF rs[r] # NoChan
    THEN [sender |-> rs[r], rooms |-> rs, chans |-> cs, created |-> 0]
    ELSE [sender |-> Len(cs) + 1,
          rooms |-> [rs EXCEPT ![r] = Len(cs) + 1],
          chans |-> Append(cs, [room |-> r, log |-> <<>>]),
          created |-> 1]

\* ConnectionInfo::new
\* A generate_connection_id that reads the counter without advancing it.
generate_connection_id_stale(counter) == [id |-> counter, next |-> counter]

\* generate_connection_id: fetch_add(1, SeqCst) returns the old value of
\* CONNECTION_COUNTER and stores its successor in one atomic step; the id
\* is formatted from that value (and the clock).
generate_connection_id(counter) == [id |-> counter, next |-> counter + 1]

\* A ConnectionInfo::new that starts in Connecting.
ConnectionInfoNewConnecting(user, room, t) ==
    [user_id |-> user, room_id |-> room, state |-> "Connecting",
     messages_sent |-> 0, messages_received |-> 0,
     connected_at |-> t, last_activity |-> t]

ConnectionInfoNew(user, room, t) ==
    [user_id |-> user, room_id |-> room, state |-> "Active",
     messages_sent |-> 0, messages_received |-> 0,
     connected_at |-> t, last_activity |-> t]

\* A register_connection that drops the entry.
register_connection_dropped(conns, id, info) == conns

\* DashMap::insert on the connection map.
register_connection(conns, id, info) ==
    [c \in DOMAIN conns \cup {id} |-> IF c = id THEN info ELSE conns[c]]

\* DashMap::remove on the connection map.
unregister_connection(conns, id) ==
    [c \in DOMAIN conns \ {id} |-> conns[c]]

\* An unregister_connection that records a disconnection whether or not an
\* entry was removed.
unregister_metrics_always(met, conns, id) ==
    [met EXCEPT !.connections_active = @ - 1]

\* unregister_connection, lines 113-117: record_disconnection() only when
\* remove returned an entry.
unregister_metrics(met, conns, id) ==
    IF id \in DOMAIN conns
    THEN [met EXCEPT !.connections_active = @ - 1]
    ELSE met

\* A set_state that ignores its argument and stores Connecting.
set_state_connecting(c, st) == [c EXCEPT !.state = "Connecting"]

\* ConnectionInfo::touch / increment_sent / increment_received / set_state
touch(c, t) == [c EXCEPT !.last_activity = t]
\* An increment_sent that only touches the entry.
increment_sent_uncounted(c, t) == touch(c, t)

increment_sent(c, t) == touch([c EXCEPT !.messages_sent = @ + 1], t)
increment_received(c, t) == touch([c EXCEPT !.messages_received = @ + 1], t)
set_state(c, st) == [c EXCEPT !.state = st]

\* An update_connection that creates the entry it does not find.
update_connection_upsert(conns, id, kind, t) ==
    LET base == IF id \in DOMAIN conns THEN conns[id]
                ELSE ConnectionInfoNew("u1", "R1", t)
        upd == CASE kind = "sent" -> increment_sent(base, t)
                 [] kind = "received" -> increment_received(base, t)
                 [] kind = "touch" -> touch(base, t)
                 [] kind = "closed" -> set_state(base, "Closed")
    IN  [c \in DOMAIN conns \cup {id} |-> IF c = id THEN upd ELSE conns[c]]

\* AppState::update_connection: get_mut, then the closure; never inserts.
\* kind names the closure the caller passes.
update_connection(conns, id, kind, t) ==
    IF id \in DOMAIN conns
    THEN [conns EXCEPT ![id] =
            CASE kind = "sent" -> increment_sent(@, t)
              [] kind = "received" -> increment_received(@, t)
              [] kind = "touch" -> touch(@, t)
              [] kind = "closed" -> set_state(@, "Closed")]
    ELSE conns

\* ---------------------------------------------------------------- handshake
\* The credential ws_handler extracts from each Sec-WebSocket-Protocol value.
HeaderToken ==
    [hd \in Headers \cup HeaderShapes |-> extract_token_from_protocol(hd)]

OriginOk(req) ==
    req.origin = NoOrigin \/ is_origin_allowed(config.allowed_origins, req.origin)

\* RateLimiter::check_ip / check_user: the verdict of the key's limiter.
check_ip(ip) == GcraAllowed(ip_limiters[ip], now, ReplenishIp, BurstIp)
check_user(u) == GcraAllowed(user_limiters[u], now, ReplenishUser, BurstUser)

\* A check_ip that reads the verdict without charging the bucket.
check_ip_update_peek(ip) == ip_limiters

\* A check_ip that keeps one limiter for every address.
check_ip_update_shared(ip) ==
    [i \in IPs |-> GcraNext(ip_limiters[ip], now, ReplenishIp, BurstIp)]

\* The limiter maps after the check.
check_ip_update(ip) ==
    [ip_limiters EXCEPT ![ip] = GcraNext(@, now, ReplenishIp, BurstIp)]
check_user_update(u) ==
    [user_limiters EXCEPT ![u] = GcraNext(@, now, ReplenishUser, BurstUser)]

\* A ws_handler that does not check the Origin header.
HandshakeReasonNoOrigin(req, ipOk, userOk) ==
    IF ~ipOk THEN "rate_limit_ip"
    ELSE IF HeaderToken[req.protocol] = <<>> THEN "missing_token"
    ELSE IF ~IsValidToken(HeaderToken[req.protocol]) THEN "invalid_token"
    ELSE IF ~userOk THEN "rate_limit_user"
    ELSE "ok"

\* A ws_handler that checks the Origin header before the address limit.
HandshakeReasonOriginFirst(req, ipOk, userOk) ==
    IF ~OriginOk(req) THEN "origin_not_allowed"
    ELSE IF ~ipOk THEN "rate_limit_ip"
    ELSE IF HeaderToken[req.protocol] = <<>> THEN "missing_token"
    ELSE IF ~IsValidToken(HeaderToken[req.protocol]) THEN "invalid_token"
    ELSE IF ~userOk THEN "rate_limit_user"
    ELSE "ok"

\* The first failing step of ws_handler, or "ok".  userOk is consulted only
\* when every earlier step passed.
HandshakeReason(req, ipOk, userOk) ==
    IF ~ipOk THEN "rate_limit_ip"
    ELSE IF ~OriginOk(req) THEN "origin_not_allowed"
    ELSE IF HeaderToken[req.protocol] = <<>> THEN "missing_token"
    ELSE IF ~IsValidToken(HeaderToken[req.protocol]) THEN "invalid_token"
    ELSE IF ~userOk THEN "rate_limit_user"
    ELSE "ok"

\* A ws_handler that answers every rejection with FORBIDDEN.
HandshakeStatusForbidden(reason) ==
    CASE reason \in {"rate_limit_ip", "rate_limit_user", "origin_not_allowed",
                     "missing_token", "invalid_token"} -> 403
      [] OTHER -> 101

HandshakeStatus(reason) ==
    CASE reason \in {"rate_limit_ip", "rate_limit_user"} -> 429
      [] reason \in {"origin_not_allowed", "missing_token", "invalid_token"} -> 403
      [] OTHER -> 101

\* ws_handler, lines 51-122: the rate-limit, origin and credential checks
\* and generate_connection_id.  A rejected request leaves the slot idle; the slots
\* are used in order.
WsHandlerAuth(s, req) ==
    /\ pc[s] = "idle"
    /\ \A t \in Sess : t < s => pc[t] # "idle"
    /\ LET ipOk == check_ip(req.ip)
           token == HeaderToken[req.protocol]
           reachesUser == /\ ipOk
                          /\ OriginOk(req)
                          /\ token # <<>>
                          /\ IsValidToken(token)
           sub == IF reachesUser THEN Validate(token).sub ELSE "u1"
           userOk == check_user(sub)
           reason == HandshakeReason(req, ipOk, userOk)
       IN  /\ ip_limiters' = check_ip_update(req.ip)
           /\ user_limiters' =
                 IF reachesUser THEN check_user_update(sub) ELSE user_limiters
           /\ IF reason \in {"rate_limit_ip", "rate_limit_user"}
              THEN /\ metrics.rate_limit_hits < MaxHits
                   /\ metrics' = [metrics EXCEPT !.rate_limit_hits = @ + 1]
              ELSE metrics' = metrics
           /\ IF reason = "ok"
              THEN /\ h' = [h EXCEPT ![s] = [user |-> sub,
                                             room |-> Validate(token).room,
                                             conn |-> generate_connection_id(
                                                          CONNECTION_COUNTER).id,
                                             sender |-> NoChan]]
                   /\ CONNECTION_COUNTER' =
                         generate_connection_id(CONNECTION_COUNTER).next
                   /\ pc' = [pc EXCEPT ![s] = "getroom"]
                   /\ resp' = resp
              ELSE /\ resp' = [status |-> HandshakeStatus(reason),
                             reason |-> reason]
                   /\ UNCHANGED <<h, CONNECTION_COUNTER, pc>>
    /\ UNCHANGED <<config, verdicts, now, ticks, fwd, rx, rooms, chans, connections,
                   message_limiters, inbox, sweep>>

\* ws_handler, line 125.
WsHandlerGetRoom(s) ==
    /\ pc[s] = "getroom"
    /\ LET got == get_or_create_room(rooms, chans, h[s].room)
       IN  /\ rooms' = got.rooms
           /\ chans' = got.chans
           /\ h' = [h EXCEPT ![s].sender = got.sender]
           /\ metrics' = [metrics EXCEPT !.rooms_created = @ + got.created]
    /\ pc' = [pc EXCEPT ![s] = "register"]
    /\ UNCHANGED <<config, verdicts, now, ticks, resp, fwd, rx, connections, CONNECTION_COUNTER,
                   ip_limiters, user_limiters, message_limiters, inbox, sweep>>

\* A registration that inserts the entry without recording the connection.
WsHandlerRegisterUncounted(s) ==
    /\ pc[s] = "register"
    /\ connections' = register_connection(connections, h[s].conn,
                          ConnectionInfoNew(h[s].user, h[s].room, now))
    /\ resp' = [status |-> 101, reason |-> "ok"]
    /\ pc' = [pc EXCEPT ![s] = "upgrading"]
    /\ UNCHANGED <<config, verdicts, now, ticks, h, fwd, rx, rooms, chans, CONNECTION_COUNTER,
                   ip_limiters, user_limiters, message_limiters, metrics, inbox, sweep>>

\* ws_handler, lines 128-150: register the connection and answer 101.
WsHandlerRegister(s) ==
    /\ pc[s] = "register"
    /\ connections' = register_connection(connections, h[s].conn,
                          ConnectionInfoNew(h[s].user, h[s].room, now))
    /\ metrics' = [metrics EXCEPT !.connections_active = @ + 1]
    /\ resp' = [status |-> 101, reason |-> "ok"]
    /\ pc' = [pc EXCEPT ![s] = "upgrading"]
    /\ UNCHANGED <<config, verdicts, now, ticks, h, fwd, rx, rooms, chans, CONNECTION_COUNTER,
                   ip_limiters, user_limiters, message_limiters, inbox, sweep>>

\* ------------------------------------------------------------------ session
\* tokio::sync::broadcast::channel(capacity) rounds the capacity up.
RECURSIVE PowerOfTwoFrom(_, _)
PowerOfTwoFrom(p, n) == IF p >= n THEN p ELSE PowerOfTwoFrom(2 * p, n)
NextPowerOfTwo(n) == PowerOfTwoFrom(1, n)
ChannelSlots == NextPowerOfTwo(CHANNEL_CAPACITY)

\* Sender::subscribe(): a receiver that sees the messages sent from now on.
subscribe(cs, c) == [chan |-> c, next |-> Len(cs[c].log)]

\* A send that puts the message in front of the stored ones.
send_prepended(cs, c, msg) ==
    IF receiver_count(c) = 0 THEN cs
    ELSE [cs EXCEPT ![c].log = <<msg>> \o @]

\* A send that stores nothing.
send_dropped(cs, c, msg) == cs

\* Sender::send(): fails, storing nothing, when the channel has no receiver.
send(cs, c, msg) ==
    IF receiver_count(c) = 0 THEN cs
    ELSE [cs EXCEPT ![c].log = Append(@, msg)]

\* Receiver::recv() outcomes for the receiver r.
RecvLagged(r) == Len(chans[r.chan].log) - r.next > ChannelSlots
RecvReady(r) == r.next < Len(chans[r.chan].log) /\ ~RecvLagged(r)

\* hex_encode: two lowercase hex digits per byte.
HexDigits == <<"0", "1", "2", "3", "4", "5", "6", "7",
               "8", "9", "a", "b", "c", "d", "e", "f">>
\* A {:02X} in place of {:02x}: upper-case digits.
HexByteUpper(b) ==
    LET upper == <<"0", "1", "2", "3", "4", "5", "6", "7",
                   "8", "9", "A", "B", "C", "D", "E", "F">>
    IN  upper[(b \div 16) + 1] \o upper[(b % 16) + 1]

HexByte(b) == HexDigits[(b \div 16) + 1] \o HexDigits[(b % 16) + 1]
RECURSIVE hex_encode(_)
hex_encode(data) ==
    IF data = <<>> THEN "" ELSE HexByte(Head(data)) \o hex_encode(Tail(data))

BinaryEnvelope(data) ==
    "{\"type\":\"binary\",\"data\":\"" \o hex_encode(data) \o "\"}"

TextPayloads == {"hello"}
BinaryPayloads == {<<222, 173>>}

\* The connection-keyed limiter of conn (NoBucket: none yet).
MessageTat(conn) ==
    IF conn \in DOMAIN message_limiters THEN message_limiters[conn] ELSE NoBucket

\* RateLimiter::check_message: the limiter map after the check.
check_message_update(conn) ==
    [c \in DOMAIN message_limiters \cup {conn} |->
        IF c = conn
        THEN GcraNext(MessageTat(conn), now, ReplenishMsg, BurstMsg)
        ELSE message_limiters[c]]

check_message(conn) == GcraAllowed(MessageTat(conn), now, ReplenishMsg, BurstMsg)

\* RateLimiter::remove_connection
remove_connection(lims, conn) == [c \in DOMAIN lims \ {conn} |-> lims[c]]

\* handle_socket, lines 191-225: split the socket, subscribe, spawn the
\* forward task.
HandleSocketStart(s) ==
    /\ pc[s] = "upgrading"
    /\ rx' = [rx EXCEPT ![s] = subscribe(chans, h[s].sender)]
    /\ fwd' = [fwd EXCEPT ![s] = "run"]
    /\ pc' = [pc EXCEPT ![s] = "loop"]
    /\ UNCHANGED <<config, verdicts, now, ticks, h, resp, rooms, chans, connections,
                   CONNECTION_COUNTER, ip_limiters, user_limiters,
                   message_limiters, metrics, inbox, sweep>>

\* The protocol upgrade fails after the 101 response: axum drops the
\* on_upgrade callback (and the sender it captured) without calling it.
UpgradeFailed(s) ==
    /\ pc[s] = "upgrading"
    /\ pc' = [pc EXCEPT ![s] = "lost"]
    /\ h' = [h EXCEPT ![s].sender = NoChan]
    /\ UNCHANGED <<config, verdicts, now, ticks, resp, fwd, rx, rooms, chans, connections,
                   CONNECTION_COUNTER, ip_limiters, user_limiters,
                   message_limiters, metrics, inbox, sweep>>

\* A handler that closes the session when the message limiter denies a
\* frame.
RecvPayloadDenialCloses(s, body, limit) ==
    /\ pc[s] = "loop"
    /\ message_limiters' = check_message_update(h[s].conn)
    /\ IF check_message(h[s].conn)
       THEN /\ metrics.messages_sent < limit
            /\ connections' = update_connection(connections, h[s].conn, "sent", now)
            /\ chans' = send(chans, h[s].sender,
                             [from |-> h[s].conn,
                              n |-> metrics.messages_sent + 1,
                              body |-> body])
            /\ metrics' = [metrics EXCEPT !.messages_sent = @ + 1]
            /\ pc' = pc
       ELSE /\ metrics.rate_limit_hits < MaxHits
            /\ metrics' = [metrics EXCEPT !.rate_limit_hits = @ + 1]
            /\ pc' = [pc EXCEPT ![s] = "cleanup"]
            /\ UNCHANGED <<connections, chans>>
    /\ UNCHANGED <<config, verdicts, now, ticks, h, resp, fwd, rx, rooms,
                   CONNECTION_COUNTER, ip_limiters, user_limiters, inbox, sweep>>

\* A handler that ends the session when the broadcast send fails for want
\* of a receiver.
RecvPayloadSendFatal(s, body, limit) ==
    /\ pc[s] = "loop"
    /\ message_limiters' = check_message_update(h[s].conn)
    /\ IF check_message(h[s].conn)
       THEN /\ metrics.messages_sent < limit
            /\ connections' = update_connection(connections, h[s].conn, "sent", now)
            /\ chans' = send(chans, h[s].sender,
                             [from |-> h[s].conn,
                              n |-> metrics.messages_sent + 1,
                              body |-> body])
            /\ metrics' = [metrics EXCEPT !.messages_sent = @ + 1]
            /\ pc' = [pc EXCEPT ![s] = IF receiver_count(h[s].sender) = 0
                                       THEN "cleanup" ELSE @]
       ELSE /\ metrics.rate_limit_hits < MaxHits
            /\ metrics' = [metrics EXCEPT !.rate_limit_hits = @ + 1]
            /\ UNCHANGED <<connections, chans, pc>>
    /\ UNCHANGED <<config, verdicts, now, ticks, h, resp, fwd, rx, rooms,
                   CONNECTION_COUNTER, ip_limiters, user_limiters, inbox, sweep>>

\* An inbound text or binary frame whose published form is body
\* (lines 232-271).
RecvPayload(s, body, limit) ==
    /\ pc[s] = "loop"
    /\ message_limiters' = check_message_update(h[s].conn)
    /\ IF check_message(h[s].conn)
       THEN /\ metrics.messages_sent < limit
            /\ connections' = update_connection(connections, h[s].conn, "sent", now)
            /\ chans' = send(chans, h[s].sender,
                             [from |-> h[s].conn,
                              n |-> metrics.messages_sent + 1,
                              body |-> body])
            /\ metrics' = [metrics EXCEPT !.messages_sent = @ + 1]
       ELSE /\ metrics.rate_limit_hits < MaxHits
            /\ metrics' = [metrics EXCEPT !.rate_limit_hits = @ + 1]
            /\ UNCHANGED <<connections, chans>>
    /\ UNCHANGED <<config, verdicts, now, ticks, pc, h, resp, fwd, rx, rooms,
                   CONNECTION_COUNTER, ip_limiters, user_limiters, inbox, sweep>>

RecvText(s) == \E text \in TextPayloads : RecvPayload(s, text, MaxMsgs)

RecvBinary(s) ==
    \E data \in BinaryPayloads : RecvPayload(s, BinaryEnvelope(data), MaxMsgs)

\* A Ping arm that refreshes the last-activity timestamp as the Pong arm does.
RecvPingTouches(s) ==
    /\ pc[s] = "loop"
    /\ connections' = update_connection(connections, h[s].conn, "touch", now)
    /\ UNCHANGED <<config, verdicts, now, ticks, pc, h, resp, fwd, rx, rooms, chans,
                   CONNECTION_COUNTER, ip_limiters, user_limiters,
                   message_limiters, metrics, inbox, sweep>>

\* A Ping frame (lines 272-275): logged only.
RecvPing(s) ==
    /\ pc[s] = "loop"
    /\ UNCHANGED vars

\* A Pong frame (lines 276-281).
RecvPong(s) ==
    /\ pc[s] = "loop"
    /\ connections' = update_connection(connections, h[s].conn, "touch", now)
    /\ UNCHANGED <<config, verdicts, now, ticks, pc, h, resp, fwd, rx, rooms, chans,
                   CONNECTION_COUNTER, ip_limiters, user_limiters,
                   message_limiters, metrics, inbox, sweep>>

\* A Close frame, a read error or the end of the stream (lines 228, 282-299)
\* ends the inbound loop.
RecvClose(s) ==
    /\ pc[s] = "loop"
    /\ pc' = [pc EXCEPT ![s] = "cleanup"]
    /\ UNCHANGED <<config, verdicts, now, ticks, h, resp, fwd, rx, rooms, chans, connections,
                   CONNECTION_COUNTER, ip_limiters, user_limiters,
                   message_limiters, metrics, inbox, sweep>>

\* Lines 304-309: forward_task.abort() and set_state(Closed).
CleanupAbort(s) ==
    /\ pc[s] = "cleanup"
    /\ fwd' = [fwd EXCEPT ![s] = IF @ = "run" THEN "aborting" ELSE @]
    /\ connections' = update_connection(connections, h[s].conn, "closed", now)
    /\ pc' = [pc EXCEPT ![s] = "unregister"]
    /\ UNCHANGED <<config, verdicts, now, ticks, h, resp, rx, rooms, chans, CONNECTION_COUNTER,
                   ip_limiters, user_limiters, message_limiters, metrics, inbox, sweep>>

\* Lines 311-314: unregister_connection and remove_connection.
CleanupUnregister(s) ==
    /\ pc[s] = "unregister"
    /\ connections' = unregister_connection(connections, h[s].conn)
    /\ metrics' = unregister_metrics(metrics, connections, h[s].conn)
    /\ message_limiters' = remove_connection(message_limiters, h[s].conn)
    /\ pc' = [pc EXCEPT ![s] = "checkroom"]
    /\ UNCHANGED <<config, verdicts, now, ticks, h, resp, fwd, rx, rooms, chans,
                   CONNECTION_COUNTER, ip_limiters, user_limiters, inbox, sweep>>

\* Line 329: sender.receiver_count() == 0.  When the room is not empty the
\* handler returns and drops its sender.
CleanupCheckRoom(s) ==
    /\ pc[s] = "checkroom"
    /\ IF receiver_count(h[s].sender) = 0
       THEN /\ pc' = [pc EXCEPT ![s] = "removeroom"]
            /\ h' = h
       ELSE /\ pc' = [pc EXCEPT ![s] = "done"]
            /\ h' = [h EXCEPT ![s].sender = NoChan]
    /\ UNCHANGED <<config, verdicts, now, ticks, resp, fwd, rx, rooms, chans, connections,
                   CONNECTION_COUNTER, ip_limiters, user_limiters,
                   message_limiters, metrics, inbox, sweep>>

\* Lines 330-333: rooms.remove(&room_id) and record_room_destroyed().
CleanupRemoveRoom(s) ==
    /\ pc[s] = "removeroom"
    /\ rooms' = [rooms EXCEPT ![h[s].room] = NoChan]
    /\ metrics' = [metrics EXCEPT !.rooms_destroyed = @ + 1]
    /\ pc' = [pc EXCEPT ![s] = "done"]
    /\ h' = [h EXCEPT ![s].sender = NoChan]
    /\ UNCHANGED <<config, verdicts, now, ticks, resp, fwd, rx, chans, connections,
                   CONNECTION_COUNTER, ip_limiters, user_limiters,
                   message_limiters, inbox, sweep>>

\* ------------------------------------------------------------- forward task
\* One iteration of the forward loop (lines 209-223) whose socket write
\* succeeds.
ForwardDeliver(s) ==
    /\ fwd[s] \in {"run", "aborting"}
    /\ RecvReady(rx[s])
    /\ inbox' = [inbox EXCEPT ![s] = Append(@, chans[rx[s].chan].log[rx[s].next + 1])]
    /\ rx' = [rx EXCEPT ![s].next = @ + 1]
    /\ connections' = update_connection(connections, h[s].conn, "received", now)
    /\ metrics' = [metrics EXCEPT !.messages_received = @ + 1]
    /\ UNCHANGED <<config, verdicts, now, ticks, pc, h, resp, fwd, rooms, chans,
                   CONNECTION_COUNTER, ip_limiters, user_limiters,
                   message_limiters, sweep>>

\* A forward task that counts the message before it learns that the write
\* failed.
ForwardWriteFailCounted(s) ==
    /\ fwd[s] \in {"run", "aborting"}
    /\ RecvReady(rx[s])
    /\ fwd' = [fwd EXCEPT ![s] = "failed"]
    /\ rx' = [rx EXCEPT ![s] = NoRx]
    /\ connections' = update_connection(connections, h[s].conn, "received", now)
    /\ metrics' = [metrics EXCEPT !.messages_received = @ + 1]
    /\ UNCHANGED <<config, verdicts, now, ticks, pc, h, resp, rooms, chans,
                   CONNECTION_COUNTER, ip_limiters, user_limiters,
                   message_limiters, inbox, sweep>>

\* The socket write fails (lines 210-218): the loop breaks, the task ends
\* and its receiver is dropped.
ForwardWriteFail(s) ==
    /\ fwd[s] \in {"run", "aborting"}
    /\ RecvReady(rx[s])
    /\ fwd' = [fwd EXCEPT ![s] = "failed"]
    /\ rx' = [rx EXCEPT ![s] = NoRx]
    /\ UNCHANGED <<config, verdicts, now, ticks, pc, h, resp, rooms, chans, connections,
                   CONNECTION_COUNTER, ip_limiters, user_limiters,
                   message_limiters, metrics, inbox, sweep>>

\* recv() returns Err(Lagged): `while let Ok(msg)` ends the loop (line 209).
ForwardLagged(s) ==
    /\ fwd[s] \in {"run", "aborting"}
    /\ RecvLagged(rx[s])
    /\ fwd' = [fwd EXCEPT ![s] = "lagged"]
    /\ rx' = [rx EXCEPT ![s] = NoRx]
    /\ UNCHANGED <<config, verdicts, now, ticks, pc, h, resp, rooms, chans, connections,
                   CONNECTION_COUNTER, ip_limiters, user_limiters,
                   message_limiters, metrics, inbox, sweep>>

\* The runtime polls the aborted task and drops it with its receiver.
ForwardCancelled(s) ==
    /\ fwd[s] = "aborting"
    /\ fwd' = [fwd EXCEPT ![s] = "cancelled"]
    /\ rx' = [rx EXCEPT ![s] = NoRx]
    /\ UNCHANGED <<config, verdicts, now, ticks, pc, h, resp, rooms, chans, connections,
                   CONNECTION_COUNTER, ip_limiters, user_limiters,
                   message_limiters, metrics, inbox, sweep>>

\* -------------------------------------------------------------- room sweep
\* A scan that never finds an empty room.
EmptyRoomsNone(rs) == {}

\* AppState::cleanup_empty_rooms, lines 133-138: collect the rooms whose
\* channel has no receiver.
EmptyRooms(rs) == {r \in RoomIds : rs[r] # NoChan /\ receiver_count(rs[r]) = 0}

SweepScan ==
    /\ sweep = {}
    /\ EmptyRooms(rooms) # {}
    /\ sweep' = EmptyRooms(rooms)
    /\ UNCHANGED <<config, verdicts, now, ticks, pc, h, resp, fwd, rx, rooms, chans, connections,
                   CONNECTION_COUNTER, ip_limiters, user_limiters,
                   message_limiters, metrics, inbox>>

\* Lines 140-144: remove one collected room and record its destruction.
SweepRemove ==
    \E r \in sweep :
        /\ rooms' = [rooms EXCEPT ![r] = NoChan]
        /\ metrics' = [metrics EXCEPT !.rooms_destroyed = @ + 1]
        /\ sweep' = sweep \ {r}
        /\ UNCHANGED <<config, verdicts, now, ticks, pc, h, resp, fwd, rx, chans, connections,
                       CONNECTION_COUNTER, ip_limiters, user_limiters,
                       message_limiters, inbox>>

\* ---------------------------------------------------------- limiter cleanup
\* A cleanup that evicts every address-keyed and user-keyed limiter.
LimiterCleanupEvicts ==
    /\ ip_limiters' = [i \in IPs |-> NoBucket]
    /\ user_limiters' = [u \in Users |-> NoBucket]
    /\ UNCHANGED <<config, verdicts, now, ticks, pc, h, resp, fwd, rx, rooms,
                   chans, connections, CONNECTION_COUNTER, message_limiters,
                   metrics, inbox, sweep>>

\* RateLimiter::cleanup: reads the sizes of the three maps and logs them.
LimiterCleanup == UNCHANGED vars

\* --------------------------------------------------------------------- time
Tick ==
    /\ ticks < MaxTicks
    /\ ticks' = ticks + 1
    /\ now' = now + ReplenishIp
    /\ UNCHANGED <<config, verdicts, pc, h, resp, fwd, rx, rooms, chans,
                   connections, CONNECTION_COUNTER, ip_limiters, user_limiters,
                   message_limiters, metrics, inbox, sweep>>

\* ----------------------------------------------------------- specifications
\* The whole gateway: every request, every frame, the sweep and the clock.
Next ==
    \/ \E s \in Sess, req \in Requests : WsHandlerAuth(s, req)
    \/ \E s \in Sess : WsHandlerGetRoom(s)
    \/ \E s \in Sess : WsHandlerRegister(s)
    \/ \E s \in Sess : HandleSocketStart(s)
    \/ \E s \in Sess : UpgradeFailed(s)
    \/ \E s \in Sess : RecvText(s)
    \/ \E s \in Sess : RecvBinary(s)
    \/ \E s \in Sess : RecvPing(s)
    \/ \E s \in Sess : RecvPong(s)
    \/ \E s \in Sess : RecvClose(s)
    \/ \E s \in Sess : CleanupAbort(s)
    \/ \E s \in Sess : CleanupUnregister(s)
    \/ \E s \in Sess : CleanupCheckRoom(s)
    \/ \E s \in Sess : CleanupRemoveRoom(s)
    \/ \E s \in Sess : ForwardDeliver(s)
    \/ \E s \in Sess : ForwardWriteFail(s)
    \/ \E s \in Sess : ForwardLagged(s)
    \/ \E s \in Sess : ForwardCancelled(s)
    \/ SweepScan
    \/ SweepRemove
    \/ Tick

Spec == Init /\ [][Next]_vars

\* Room setup and teardown: NSess clients with signed tokens join and leave
\* the rooms; no frame is published.
ValidRequests ==
    {req \in Requests : /\ req.origin = NoOrigin
                        /\ IsValidToken(HeaderToken[req.protocol])}

Connect(s) == \E req \in ValidRequests : WsHandlerAuth(s, req)

NextRooms ==
    \/ \E s \in Sess : Connect(s)
    \/ \E s \in Sess : WsHandlerGetRoom(s)
    \/ \E s \in Sess : WsHandlerRegister(s)
    \/ \E s \in Sess : HandleSocketStart(s)
    \/ \E s \in Sess : UpgradeFailed(s)
    \/ \E s \in Sess : RecvClose(s)
    \/ \E s \in Sess : CleanupAbort(s)
    \/ \E s \in Sess : CleanupUnregister(s)
    \/ \E s \in Sess : CleanupCheckRoom(s)
    \/ \E s \in Sess : CleanupRemoveRoom(s)
    \/ \E s \in Sess : ForwardCancelled(s)

SpecRooms == Init /\ [][NextRooms]_vars

\* The periodic sweep beside NPairSess clients joining and leaving.
PairSess == 1..NPairSess

NextSweep ==
    \/ \E s \in PairSess : Connect(s)
    \/ \E s \in Sess : WsHandlerGetRoom(s)
    \/ \E s \in Sess : WsHandlerRegister(s)
    \/ \E s \in Sess : HandleSocketStart(s)
    \/ \E s \in Sess : RecvClose(s)
    \/ \E s \in Sess : CleanupAbort(s)
    \/ \E s \in Sess : CleanupUnregister(s)
    \/ \E s \in Sess : CleanupCheckRoom(s)
    \/ \E s \in Sess : CleanupRemoveRoom(s)
    \/ \E s \in Sess : ForwardCancelled(s)
    \/ SweepScan
    \/ SweepRemove

SpecSweep == Init /\ [][NextSweep]_vars

\* The handshake under every request: clients connect, are rejected and
\* retry; accepted ones are upgraded (or fail to); no frame is received and
\* no time passes.
Handshake(s) == \E req \in Requests : WsHandlerAuth(s, req)

NextHandshake ==
    \/ \E s \in Sess : Handshake(s)
    \/ \E s \in Sess : WsHandlerGetRoom(s)
    \/ \E s \in Sess : WsHandlerRegister(s)
    \/ \E s \in Sess : HandleSocketStart(s)
    \/ \E s \in Sess : UpgradeFailed(s)

SpecHandshake == Init /\ [][NextHandshake]_vars

\* Messages: NPairSess clients in room R1 exchange up to MaxMsgs text frames.
Join(s) ==
    \E req \in ValidRequests :
        /\ req.ip = "ip1"
        /\ Validate(HeaderToken[req.protocol]).room = "R1"
        /\ WsHandlerAuth(s, req)

NextMessages ==
    \/ \E s \in PairSess : Join(s)
    \/ \E s \in Sess : WsHandlerGetRoom(s)
    \/ \E s \in Sess : WsHandlerRegister(s)
    \/ \E s \in Sess : HandleSocketStart(s)
    \/ \E s \in Sess : RecvText(s)
    \/ \E s \in Sess : RecvClose(s)
    \/ \E s \in Sess : CleanupAbort(s)
    \/ \E s \in Sess : CleanupUnregister(s)
    \/ \E s \in Sess : CleanupCheckRoom(s)
    \/ \E s \in Sess : CleanupRemoveRoom(s)
    \/ \E s \in Sess : ForwardDeliver(s)
    \/ \E s \in Sess : ForwardWriteFail(s)
    \/ \E s \in Sess : ForwardLagged(s)
    \/ \E s \in Sess : ForwardCancelled(s)

SpecMessages == Init /\ [][NextMessages]_vars

\* ------------------------------------------------------------------ fairness
\* The rate limiter on its own, as its unit tests drive it: built with a
\* configuration from Configs, then check_ip, check_user and check_message
\* are called directly, up to MaxChecks times per key, with no time
\* elapsing between the calls.
InitLimiter == \E cfg \in Configs : Boot(cfg)

\* The rate-limit hit a denial records (check_* Err branch).
RecordVerdict(ok) ==
    metrics' = [metrics EXCEPT !.rate_limit_hits = IF ok THEN @ ELSE @ + 1]

CallCheckIp(ip) ==
    /\ Len(verdicts.ip[ip]) < MaxChecks
    /\ ip_limiters' = check_ip_update(ip)
    /\ RecordVerdict(check_ip(ip))
    /\ verdicts' = [verdicts EXCEPT !.ip[ip] = Append(@, check_ip(ip))]
    /\ UNCHANGED <<config, now, ticks, pc, h, resp, fwd, rx, rooms, chans,
                   connections, CONNECTION_COUNTER, user_limiters,
                   message_limiters, inbox, sweep>>

CallCheckUser(u) ==
    /\ Len(verdicts.user[u]) < MaxChecks
    /\ user_limiters' = check_user_update(u)
    /\ RecordVerdict(check_user(u))
    /\ verdicts' = [verdicts EXCEPT !.user[u] = Append(@, check_user(u))]
    /\ UNCHANGED <<config, now, ticks, pc, h, resp, fwd, rx, rooms, chans,
                   connections, CONNECTION_COUNTER, ip_limiters,
                   message_limiters, inbox, sweep>>

CallCheckMessage(c) ==
    /\ Len(verdicts.message[c]) < MaxChecks
    /\ message_limiters' = check_message_update(c)
    /\ RecordVerdict(check_message(c))
    /\ verdicts' = [verdicts EXCEPT !.message[c] = Append(@, check_message(c))]
    /\ UNCHANGED <<config, now, ticks, pc, h, resp, fwd, rx, rooms, chans,
                   connections, CONNECTION_COUNTER, ip_limiters,
                   user_limiters, inbox, sweep>>

NextLimiter ==
    \/ \E ip \in IPs : CallCheckIp(ip)
    \/ \E u \in Users : CallCheckUser(u)
    \/ \E c \in ConnKeys : CallCheckMessage(c)

SpecLimiter == InitLimiter /\ [][NextLimiter]_vars

\* Talk in one room while clients come and go: NSess clients of room R1
\* join and leave, one frame is published, no socket write fails.
JoinRoom(s) ==
    \E req \in ValidRequests :
        /\ Validate(HeaderToken[req.protocol]).room = "R1"
        /\ WsHandlerAuth(s, req)

RecvOneText(s) == \E text \in TextPayloads : RecvPayload(s, text, 1)

NextTalk ==
    \/ \E s \in Sess : JoinRoom(s)
    \/ \E s \in Sess : WsHandlerGetRoom(s)
    \/ \E s \in Sess : WsHandlerRegister(s)
    \/ \E s \in Sess : HandleSocketStart(s)
    \/ \E s \in Sess : RecvOneText(s)
    \/ \E s \in Sess : RecvClose(s)
    \/ \E s \in Sess : CleanupAbort(s)
    \/ \E s \in Sess : CleanupUnregister(s)
    \/ \E s \in Sess : CleanupCheckRoom(s)
    \/ \E s \in Sess : CleanupRemoveRoom(s)
    \/ \E s \in Sess : ForwardDeliver(s)
    \/ \E s \in Sess : ForwardCancelled(s)

SpecTalk == Init /\ [][NextTalk]_vars

\* Handshakes against the clock: clients connect and retry while the
\* window rolls over.
NextRefill ==
    \/ \E s \in Sess : Handshake(s)
    \/ Tick

SpecRefill == Init /\ [][NextRefill]_vars

\* The origin check under each allow-list: the handshake of SpecHandshake
\* in a gateway created with any list of OriginLists.
InitOrigins ==
    \E list \in OriginLists : Boot([DefaultConfig EXCEPT !.allowed_origins = list])

SpecOrigins == InitOrigins /\ [][NextHandshake]_vars

\* Browser clients at a gateway created with an empty allow-list: every
\* handshake carries an Origin header.
InitOpenOrigins == Boot([DefaultConfig EXCEPT !.allowed_origins = <<>>])

BrowserHandshake(s) ==
    \E req \in Requests : req.origin # NoOrigin /\ WsHandlerAuth(s, req)

NextOpenOrigins ==
    \/ \E s \in Sess : BrowserHandshake(s)
    \/ \E s \in Sess : WsHandlerGetRoom(s)
    \/ \E s \in Sess : WsHandlerRegister(s)
    \/ \E s \in Sess : HandleSocketStart(s)
    \/ \E s \in Sess : UpgradeFailed(s)

SpecOpenOrigins == InitOpenOrigins /\ [][NextOpenOrigins]_vars

\* Credential extraction: the client's Sec-WebSocket-Protocol value is a
\* header of one of the shapes; extract_token_from_protocol is called on
\* it directly, and the client retries the handshake with it.
InitExtract ==
    \E sh \in Shapes : BootWith(DefaultConfig, [NoVerdicts EXCEPT !.shape = sh])

CallExtractToken ==
    /\ verdicts.token = <<>>
    /\ verdicts' = [verdicts EXCEPT
                      !.token = <<extract_token_from_protocol(HeaderOf(verdicts.shape))>>]
    /\ UNCHANGED <<config, now, ticks, pc, h, resp, fwd, rx, rooms, chans,
                   connections, CONNECTION_COUNTER, ip_limiters, user_limiters,
                   message_limiters, metrics, inbox, sweep>>

ShapeHandshake(s) ==
    \E origin \in Origins :
        WsHandlerAuth(s, [ip |-> "ip1", origin |-> origin,
                          protocol |-> HeaderOf(verdicts.shape)])

NextExtract ==
    \/ CallExtractToken
    \/ \E s \in Sess : ShapeHandshake(s)

SpecExtract == InitExtract /\ [][NextExtract]_vars

\* Direct calls of the registry and limiter operations on arbitrary ids,
\* as the unit tests make them: ids are registered in the order
\* generate_connection_id hands them out and removed in any order, any
\* number of times.
CleanupIds == ConnKeys \cup {Cardinality(ConnKeys)}

CallRegisterConnection(u, r) ==
    /\ CONNECTION_COUNTER \in ConnKeys
    /\ connections' = register_connection(connections, CONNECTION_COUNTER,
                          ConnectionInfoNew(u, r, now))
    /\ CONNECTION_COUNTER' = CONNECTION_COUNTER + 1
    /\ metrics' = [metrics EXCEPT !.connections_active = @ + 1]
    /\ UNCHANGED <<config, verdicts, now, ticks, pc, h, resp, fwd, rx, rooms,
                   chans, ip_limiters, user_limiters, message_limiters,
                   inbox, sweep>>

CallUnregisterConnection(c) ==
    /\ connections' = unregister_connection(connections, c)
    /\ metrics' = unregister_metrics(metrics, connections, c)
    /\ UNCHANGED <<config, verdicts, now, ticks, pc, h, resp, fwd, rx, rooms,
                   chans, CONNECTION_COUNTER, ip_limiters, user_limiters,
                   message_limiters, inbox, sweep>>

CallRemoveConnection(c) ==
    /\ message_limiters' = remove_connection(message_limiters, c)
    /\ UNCHANGED <<config, verdicts, now, ticks, pc, h, resp, fwd, rx, rooms,
                   chans, connections, CONNECTION_COUNTER, ip_limiters,
                   user_limiters, metrics, inbox, sweep>>

NextCleanupCalls ==
    \/ \E u \in Users, r \in RoomIds : CallRegisterConnection(u, r)
    \/ \E c \in CleanupIds : CallUnregisterConnection(c)
    \/ \E c \in ConnKeys : CallCheckMessage(c)
    \/ \E c \in CleanupIds : CallRemoveConnection(c)

SpecCleanupCalls == Init /\ [][NextCleanupCalls]_vars

\* Frames of every kind: NPairSess clients in room R1 send text, binary,
\* ping, pong and close frames; no socket write fails and no time passes.
NextFrames ==
    \/ \E s \in PairSess : Join(s)
    \/ \E s \in Sess : WsHandlerGetRoom(s)
    \/ \E s \in Sess : WsHandlerRegister(s)
    \/ \E s \in Sess : HandleSocketStart(s)
    \/ \E s \in Sess : RecvText(s)
    \/ \E s \in Sess : RecvBinary(s)
    \/ \E s \in Sess : RecvPing(s)
    \/ \E s \in Sess : RecvPong(s)
    \/ \E s \in Sess : RecvClose(s)
    \/ \E s \in Sess : CleanupAbort(s)
    \/ \E s \in Sess : CleanupUnregister(s)
    \/ \E s \in Sess : CleanupCheckRoom(s)
    \/ \E s \in Sess : CleanupRemoveRoom(s)
    \/ \E s \in Sess : ForwardDeliver(s)
    \/ \E s \in Sess : ForwardLagged(s)
    \/ \E s \in Sess : ForwardCancelled(s)

SpecFrames == Init /\ [][NextFrames]_vars

\* The runtime keeps polling every spawned task: a handler that can take
\* its next step takes it, and an aborted task is dropped.  Nothing
\* obliges a client to send a frame or to connect.
HandlerSteps(s) ==
    \/ WsHandlerGetRoom(s)
    \/ WsHandlerRegister(s)
    \/ HandleSocketStart(s)
    \/ CleanupAbort(s)
    \/ CleanupUnregister(s)
    \/ CleanupCheckRoom(s)
    \/ CleanupRemoveRoom(s)
    \/ ForwardDeliver(s)
    \/ ForwardLagged(s)
    \/ ForwardCancelled(s)

TaskFairness == \A s \in Sess : WF_vars(HandlerSteps(s))

\* cleanup_empty_rooms is run again and again by a periodic task.
PeriodicSweep == WF_vars(SweepScan) /\ WF_vars(SweepRemove)

FairSpecSweep == SpecSweep /\ TaskFairness /\ PeriodicSweep

FairSpecMessages == SpecMessages /\ TaskFairness

\* Binary payloads of several lengths and byte values, sent by the client
\* of slot 1 between text frames.
ByteStrings ==
    {<<>>, <<222, 173>>, <<0, 15>>, <<255, 16>>, <<171, 205, 239>>}

RecvBinaryData(s, data) == RecvPayload(s, BinaryEnvelope(data), MaxMsgs)

NextBinary ==
    \/ Join(1)
    \/ \E s \in Sess : WsHandlerGetRoom(s)
    \/ \E s \in Sess : WsHandlerRegister(s)
    \/ \E s \in Sess : HandleSocketStart(s)
    \/ \E s \in Sess : RecvText(s)
    \/ \E s \in Sess, data \in ByteStrings : RecvBinaryData(s, data)
    \/ \E s \in Sess : ForwardDeliver(s)

SpecBinary == Init /\ [][NextBinary]_vars

\* One client's frames against the clock: the client of slot 1 joins room
\* R1, sends frames of every kind and leaves while time passes.
NextFramesClock ==
    \/ Join(1)
    \/ \E s \in Sess : WsHandlerGetRoom(s)
    \/ \E s \in Sess : WsHandlerRegister(s)
    \/ \E s \in Sess : HandleSocketStart(s)
    \/ \E s \in Sess : RecvText(s)
    \/ \E s \in Sess : RecvBinary(s)
    \/ \E s \in Sess : RecvPing(s)
    \/ \E s \in Sess : RecvPong(s)
    \/ \E s \in Sess : RecvClose(s)
    \/ \E s \in Sess : CleanupAbort(s)
    \/ \E s \in Sess : CleanupUnregister(s)
    \/ \E s \in Sess : CleanupCheckRoom(s)
    \/ \E s \in Sess : CleanupRemoveRoom(s)
    \/ \E s \in Sess : ForwardDeliver(s)
    \/ \E s \in Sess : ForwardLagged(s)
    \/ \E s \in Sess : ForwardCancelled(s)
    \/ Tick

SpecFramesClock == Init /\ [][NextFramesClock]_vars

\* Limiter buckets over connection lifetimes: NPairSess clients join, send
\* a frame and leave while RateLimiter::cleanup is called at any moment.
NextBuckets ==
    \/ \E s \in PairSess : Join(s)
    \/ \E s \in Sess : WsHandlerGetRoom(s)
    \/ \E s \in Sess : WsHandlerRegister(s)
    \/ \E s \in Sess : HandleSocketStart(s)
    \/ \E s \in Sess : RecvOneText(s)
    \/ \E s \in Sess : RecvClose(s)
    \/ \E s \in Sess : CleanupAbort(s)
    \/ \E s \in Sess : CleanupUnregister(s)
    \/ \E s \in Sess : CleanupCheckRoom(s)
    \/ \E s \in Sess : CleanupRemoveRoom(s)
    \/ \E s \in Sess : ForwardDeliver(s)
    \/ \E s \in Sess : ForwardCancelled(s)
    \/ LimiterCleanup

SpecBuckets == Init /\ [][NextBuckets]_vars

\* Connection lifetimes: NPairSess clients are accepted, the upgrade
\* completes or fails, and every client eventually goes away (its stream
\* ends, which the inbound loop reads as the end of the session).
NextLifetimes ==
    \/ \E s \in PairSess : Join(s)
    \/ \E s \in Sess : WsHandlerGetRoom(s)
    \/ \E s \in Sess : WsHandlerRegister(s)
    \/ \E s \in Sess : HandleSocketStart(s)
    \/ \E s \in Sess : UpgradeFailed(s)
    \/ \E s \in Sess : RecvOneText(s)
    \/ \E s \in Sess : RecvClose(s)
    \/ \E s \in Sess : CleanupAbort(s)
    \/ \E s \in Sess : CleanupUnregister(s)
    \/ \E s \in Sess : CleanupCheckRoom(s)
    \/ \E s \in Sess : CleanupRemoveRoom(s)
    \/ \E s \in Sess : ForwardDeliver(s)
    \/ \E s \in Sess : ForwardCancelled(s)

SpecLifetimes == Init /\ [][NextLifetimes]_vars

ClientsLeave == \A s \in Sess : WF_vars(RecvClose(s))

FairSpecLifetimes == SpecLifetimes /\ TaskFairness /\ ClientsLeave

\* --------------------------------------------------------------------- claims
Registered(s) == pc[s] \in {"upgrading", "lost", "loop", "cleanup", "unregister"}

CredentialOf(req) == HeaderToken[req.protocol]

OriginAcceptable(req) ==
    \/ req.origin = NoOrigin
    \/ \E i \in 1..Len(config.allowed_origins) :
          config.allowed_origins[i] = req.origin

\* A request that passes every handshake check in the current state.
Admissible(req) ==
    /\ IsValidToken(CredentialOf(req))
    /\ OriginAcceptable(req)
    /\ check_ip(req.ip)
    /\ check_user(Validate(CredentialOf(req)).sub)

\* Slot s is at the handshake and the step changes what a handshake can
\* change (a repeated rejection can leave every variable as it was).
AtHandshake(s) ==
    /\ pc[s] = "idle"
    /\ <<pc, resp, ip_limiters, metrics>>' # <<pc, resp, ip_limiters, metrics>>

\* C1: a handshake with a valid credential, an allowed or absent Origin and
\* both limiters admitting it is accepted with the user and room of its
\* claims; registering it adds exactly one entry to the Connection
\* Registry, in state Active with that user and room, and answers 101; the
\* registry holds one entry per accepted handshake.
C1_ValidHandshakeRegistersOnce ==
    /\ [][\A s \in Sess : AtHandshake(s) => \A req \in Requests :
            (WsHandlerAuth(s, req) /\ Admissible(req))
            => /\ pc'[s] = "getroom"
               /\ h'[s].user = Validate(CredentialOf(req)).sub
               /\ h'[s].room = Validate(CredentialOf(req)).room]_vars
    /\ [][\A s \in Sess :
            (pc[s] = "register" /\ pc'[s] # "register")
            => /\ h[s].conn \notin DOMAIN connections
               /\ DOMAIN connections' = DOMAIN connections \cup {h[s].conn}
               /\ \A c \in DOMAIN connections : connections'[c] = connections[c]
               /\ connections'[h[s].conn].state = "Active"
               /\ connections'[h[s].conn].user_id = h[s].user
               /\ connections'[h[s].conn].room_id = h[s].room
               /\ resp'.status = 101]_vars
    /\ [](Cardinality(DOMAIN connections)
            = Cardinality({s \in Sess : Registered(s)}))

C1_Witness ==
    \E s, t \in Sess :
        /\ s # t
        /\ pc[s] = "loop"
        /\ pc[t] = "upgrading"
        /\ resp.status = 101
        /\ connections[h[t].conn].state = "Active"
        /\ Cardinality(DOMAIN connections) = 2

\* C2: a handshake that is rejected (address limit, disallowed origin,
\* missing or malformed credential, invalid token, user limit) is answered
\* 403 or 429 and goes no further: no connection id is taken, no connection
\* is registered and no room is created.
C2_RejectionLeavesRegistries ==
    [][\A s \in Sess : AtHandshake(s) => \A req \in Requests :
          (WsHandlerAuth(s, req) /\ ~Admissible(req))
          => /\ pc'[s] = "idle"
             /\ resp'.status \in {403, 429}
             /\ h' = h
             /\ CONNECTION_COUNTER' = CONNECTION_COUNTER
             /\ connections' = connections
             /\ rooms' = rooms
             /\ chans' = chans]_vars

C2_Witness ==
    /\ resp.reason = "origin_not_allowed"
    /\ \E s \in Sess : pc[s] = "loop"
    /\ \E s \in Sess : pc[s] = "idle"
    /\ rooms["R1"] # NoChan

\* C5: while no room has been removed, every caller of get_or_create_room
\* for one room id holds the same channel, the one the registry stores;
\* one channel exists per room id and one room-created event per room.
C5_ConcurrentLookupsShareChannel ==
    metrics.rooms_destroyed = 0 =>
        /\ \A r \in RoomIds :
              /\ Cardinality({c \in 1..Len(chans) : chans[c].room = r}) <= 1
              /\ \A s \in Sess :
                    (h[s].room = r /\ h[s].sender # NoChan) => h[s].sender = rooms[r]
        /\ metrics.rooms_created = Cardinality({r \in RoomIds : rooms[r] # NoChan})

C5_Witness ==
    /\ \A s \in Sess : pc[s] = "register" /\ h[s].room = "R1" /\ h[s].sender = rooms["R1"]
    /\ metrics.rooms_created = 1

Active(s) == pc[s] = "loop" /\ rx[s].chan # NoChan

\* C3: any two simultaneously active sessions of one room are subscribed to
\* the same channel, the one get_or_create_room hands out, whatever the
\* interleaving of a teardown of the room with a joiner that already holds
\* the room's channel.
C3_JoinerNotStranded ==
    \A s, t \in Sess :
        (Active(s) /\ Active(t) /\ h[s].room = h[t].room)
        => rx[s].chan = rx[t].chan

\* A channel is live if the Room Registry stores it, a receiver is
\* subscribed to it, or a session holds its sender.
Live(c) ==
    \/ rooms[chans[c].room] = c
    \/ receiver_count(c) > 0
    \/ \E s \in Sess : h[s].sender = c

\* C4: at most one live channel per room id in every reachable state.
C4_OneLiveChannelPerRoom ==
    \A r \in RoomIds :
        Cardinality({c \in 1..Len(chans) : chans[c].room = r /\ Live(c)}) <= 1

InCleanup(s) == pc[s] \in {"cleanup", "unregister", "checkroom", "removeroom"}

\* C7: a step of one session's termination never removes another
\* connection's registry entry, never ends another session's subscription
\* and never removes from the Room Registry a channel that has a
\* subscriber.
C7_TerminationIsLocal ==
    [][\A s \in Sess :
          (InCleanup(s) /\ pc'[s] # pc[s])
          => /\ \A c \in DOMAIN connections :
                   c # h[s].conn => /\ c \in DOMAIN connections'
                                    /\ connections'[c] = connections[c]
             /\ \A u \in Sess : u # s => rx'[u] = rx[u]
             /\ \A r \in RoomIds :
                   (rooms[r] # NoChan /\ receiver_count(rooms[r]) > 0)
                   => rooms'[r] = rooms[r]]_vars

RoomEmpty(r) == rooms[r] # NoChan /\ receiver_count(rooms[r]) = 0

Cleaned(s) ==
    /\ h[s].conn \notin DOMAIN connections
    /\ h[s].conn \notin DOMAIN message_limiters

\* C8: however a session ends (the inbound loop ends, or the forward task
\* ends on a write failure), its connection is eventually removed from the
\* Connection Registry and its connection-keyed limiter is removed.
C8_CleanupOnEveryExit ==
    \A s \in Sess :
        ((pc[s] = "cleanup") \/ (pc[s] = "loop" /\ fwd[s] = "failed")) ~> Cleaned(s)

\* C9: when the forward task of a session ends, the inbound loop is
\* cancelled and the session is cleaned up; when the inbound loop ends,
\* the forward task is cancelled.
C9_EitherSideCancelsTheOther ==
    /\ \A s \in Sess :
          (pc[s] = "loop" /\ fwd[s] \in {"failed", "lagged"}) ~> (pc[s] = "done")
    /\ \A s \in Sess :
          (pc[s] = "cleanup") ~> (fwd[s] \notin {"run", "aborting"})

\* C10: a subscriber whose unread backlog exceeds the channel capacity
\* stays subscribed while its session goes on, and no other subscriber
\* loses its subscription or its position because of it.
C10_LaggingSubscriberStays ==
    [][\A s \in Sess :
          (Active(s) /\ RecvLagged(rx[s]) /\ pc'[s] = "loop")
          => /\ rx'[s].chan = rx[s].chan
             /\ \A u \in Sess :
                   (u # s /\ Active(u) /\ ~RecvLagged(rx[u]) /\ pc'[u] = "loop"
                      /\ fwd'[u] = fwd[u])
                   => /\ rx'[u].chan = rx[u].chan
                      /\ rx'[u].next >= rx[u].next]_vars

\* Slot s publishes an admitted frame in this step.
Publishes(s) ==
    /\ pc[s] = "loop"
    /\ h[s].conn \in DOMAIN connections'
    /\ connections'[h[s].conn].messages_sent
          = connections[h[s].conn].messages_sent + 1

\* C11: publishing an admitted frame leaves the publisher in its inbound
\* loop, registered and Active, whether or not the channel has a receiver
\* and whatever the subscribers' backlog; and a session in its loop whose
\* limiter admits a frame can always take the next frame.
C11_PublishNeverBlocks ==
    /\ [][\A s \in Sess :
            Publishes(s)
            => /\ pc'[s] = "loop"
               /\ connections'[h[s].conn].state = "Active"
               /\ fwd' = fwd /\ rx' = rx]_vars
    /\ [](\A s \in Sess :
            (pc[s] = "loop" /\ check_message(h[s].conn)
               /\ metrics.messages_sent < MaxMsgs)
            => ENABLED RecvText(s))

C11_Witness ==
    \E s \in Sess :
        /\ pc[s] = "loop"
        /\ receiver_count(h[s].sender) = 0
        /\ connections[h[s].conn].messages_sent >= 1
        /\ metrics.messages_sent > Len(chans[h[s].sender].log)

\* The messages of channel c that receiver r has consumed since it
\* subscribed, given that it consumed k of them.
Consumed(r, k) == SubSeq(chans[r.chan].log, r.next - k + 1, r.next)

\* C12: a frame published to a room reaches the channel of every session
\* then subscribed in that room; what a subscriber has been sent is exactly
\* the run of its channel's messages from its subscription on, with no gap;
\* and a subscription starts after the messages already published.
C12_SubscribersReceiveAll ==
    /\ [][\A p \in Sess : Publishes(p) =>
            \A s \in Sess :
               (Active(s) /\ h[s].room = h[p].room)
               => /\ Len(chans'[rx[s].chan].log) = Len(chans[rx[s].chan].log) + 1
                  /\ chans'[rx[s].chan].log[Len(chans'[rx[s].chan].log)].from
                        = h[p].conn]_vars
    /\ [](\A s \in Sess :
            rx[s].chan # NoChan
            => /\ Len(inbox[s]) <= rx[s].next
               /\ inbox[s] = Consumed(rx[s], Len(inbox[s])))
    /\ [][\A s \in Sess :
            (pc[s] = "upgrading" /\ pc'[s] = "loop")
            => /\ rx'[s].next = Len(chans[h[s].sender].log)
               /\ inbox'[s] = <<>>]_vars

\* C13: the messages of one publisher appear in every subscriber's socket
\* in the order in which they were published.
C13_PublisherOrderKept ==
    \A s \in Sess : \A i, j \in 1..Len(inbox[s]) :
        (i < j /\ inbox[s][i].from = inbox[s][j].from)
        => inbox[s][i].n < inbox[s][j].n

C13_Witness ==
    \E s \in Sess : \E i, j \in 1..Len(inbox[s]) :
        /\ i < j
        /\ inbox[s][i].from = inbox[s][j].from
        /\ inbox[s][i].from # h[s].conn
        /\ Len(inbox[s]) = 3

\* C14: a session subscribes to the channel it publishes on, so a frame it
\* publishes while subscribed is stored in the channel its own receiver
\* reads, ahead of the receiver's position, and its forward task can write
\* it back to its own socket.
C14_SelfEcho ==
    /\ [][\A p \in Sess :
            (Publishes(p) /\ rx[p].chan # NoChan)
            => /\ rx[p].chan = h[p].sender
               /\ rx[p].next <= Len(chans[rx[p].chan].log)
               /\ Len(chans'[rx[p].chan].log) = Len(chans[rx[p].chan].log) + 1
               /\ chans'[rx[p].chan].log[Len(chans'[rx[p].chan].log)].from
                     = h[p].conn]_vars
    /\ [](\A s \in Sess :
            (fwd[s] = "run" /\ RecvReady(rx[s])) => ENABLED ForwardDeliver(s))

C14_Witness ==
    \E s \in Sess :
        /\ Len(inbox[s]) >= 1
        /\ inbox[s][1].from = h[s].conn
        /\ inbox[s][1].body = "hello"

\* The first n checks are admitted and every later one is denied.
FirstOnly(results, n) ==
    \A i \in 1..Len(results) : results[i] = (i <= n)

\* C15: with burst multiplier 1 and no time elapsing, for each of
\* check_ip, check_user and check_message the first N consecutive checks of
\* a key return true and every further one returns false, N being the
\* configured rate.
C15_ExactlyNAdmitted ==
    (config.burst_multiplier = 1 /\ ticks = 0)
    => /\ \A ip \in IPs :
             FirstOnly(verdicts.ip[ip], config.ip_connections_per_minute)
       /\ \A u \in Users :
             FirstOnly(verdicts.user[u], config.user_connections_per_minute)
       /\ \A c \in ConnKeys :
             FirstOnly(verdicts.message[c], config.messages_per_second)

C15_Witness ==
    /\ config.burst_multiplier = 1
    /\ config.ip_connections_per_minute = 2
    /\ ticks = 0
    /\ verdicts.ip["ip1"] = <<TRUE, TRUE, FALSE>>
    /\ verdicts.user["u1"] = <<TRUE, TRUE, FALSE>>
    /\ verdicts.message[0] = <<TRUE, TRUE, FALSE>>

\* The keys whose verdict sequence grows in this step.
Checked(family, keys) ==
    {k \in keys : Len(verdicts'[family][k]) > Len(verdicts[family][k])}

\* What a check of each key would answer, and each key's bucket.
Answers ==
    [ip |-> [i \in IPs |-> <<check_ip(i), ip_limiters[i]>>],
     user |-> [u \in Users |-> <<check_user(u), user_limiters[u]>>],
     message |-> [c \in ConnKeys |-> <<check_message(c), MessageTat(c)>>]]

\* C16: a check of one key changes neither the bucket nor the next verdict
\* of any other key of its family, nor of any key of another family.
C16_BucketsIndependent ==
    [][/\ \A ip \in Checked("ip", IPs) :
            /\ \A j \in IPs \ {ip} : Answers'.ip[j] = Answers.ip[j]
            /\ Answers'.user = Answers.user
            /\ Answers'.message = Answers.message
       /\ \A u \in Checked("user", Users) :
            /\ \A v \in Users \ {u} : Answers'.user[v] = Answers.user[v]
            /\ Answers'.ip = Answers.ip
            /\ Answers'.message = Answers.message
       /\ \A c \in Checked("message", ConnKeys) :
            /\ \A d \in ConnKeys \ {c} : Answers'.message[d] = Answers.message[d]
            /\ Answers'.ip = Answers.ip
            /\ Answers'.user = Answers.user]_vars

C16_Witness ==
    /\ verdicts.ip["ip1"] = <<TRUE, FALSE>>
    /\ ~check_ip("ip1")
    /\ check_ip("ip2")
    /\ verdicts.user["u1"] = <<TRUE, FALSE>>
    /\ check_user("u2")
    /\ verdicts.message[0] = <<TRUE, FALSE>>
    /\ check_message(1)
    /\ verdicts.ip["ip2"] = <<>>

\* C17: a text or binary frame that check_message denies is dropped and
\* nothing else happens: nothing is published, no counter of the connection
\* changes, the connection stays registered and Active, the session stays
\* in its inbound loop with its forward task untouched; only the
\* rate-limit hit is recorded.
C17_DeniedFrameDropped ==
    [][\A s \in Sess :
          (pc[s] = "loop" /\ ~check_message(h[s].conn)
             /\ (RecvText(s) \/ RecvBinary(s)))
          => /\ chans' = chans
             /\ connections' = connections
             /\ connections[h[s].conn].state = "Active"
             /\ pc' = pc
             /\ fwd' = fwd
             /\ rx' = rx
             /\ inbox' = inbox
             /\ metrics'.messages_sent = metrics.messages_sent
             /\ metrics'.rate_limit_hits = metrics.rate_limit_hits + 1]_vars

C17_Witness ==
    \E s \in Sess :
        /\ pc[s] = "loop"
        /\ ~check_message(h[s].conn)
        /\ metrics.rate_limit_hits = 1
        /\ connections[h[s].conn].state = "Active"
        /\ connections[h[s].conn].messages_sent = 2
        /\ \E i \in 1..Len(chans[h[s].sender].log) :
              chans[h[s].sender].log[i].body = BinaryEnvelope(<<222, 173>>)

\* The token of the request is missing, malformed or fails validation.
CredentialRefused(req) ==
    CredentialOf(req) = <<>> \/ ~IsValidToken(CredentialOf(req))

\* C18: a rejected handshake is answered 429 when a rate limiter denied it
\* (address or user) and 403 when the origin is disallowed, the credential
\* is missing or the token is invalid or expired; no other status is given
\* to a rejection and the rejected request is not upgraded.
C18_RejectionStatuses ==
    /\ [][\A s \in Sess : AtHandshake(s) => \A req \in Requests :
            (WsHandlerAuth(s, req) /\ ~Admissible(req))
            => /\ resp'.status \in {403, 429}
               /\ (OriginAcceptable(req) /\ ~CredentialRefused(req))
                     => resp'.status = 429
               /\ (check_ip(req.ip)
                      /\ (~OriginAcceptable(req) \/ CredentialRefused(req)))
                     => resp'.status = 403
               /\ (resp'.status = 429)
                     = (resp'.reason \in {"rate_limit_ip", "rate_limit_user"})
               /\ (resp'.status = 403)
                     = (resp'.reason \in {"origin_not_allowed", "missing_token",
                                          "invalid_token"})
               /\ pc'[s] = "idle"
               /\ connections' = connections]_vars
    /\ [](resp.status = 101 => \E s \in Sess : Registered(s) \/ InCleanup(s)
                                                \/ pc[s] = "done")

C18_Witness ==
    /\ resp.status = 429
    /\ resp.reason = "rate_limit_user"
    /\ metrics.rate_limit_hits = 1
    /\ \E s \in Sess : pc[s] = "idle"

\* The step of the handshake at which the request fails first, in the order
\* address limit, origin, credential extraction, token validation, user
\* limit.
FirstFailingStep(req) ==
    IF ~check_ip(req.ip) THEN "rate_limit_ip"
    ELSE IF ~OriginAcceptable(req) THEN "origin_not_allowed"
    ELSE IF CredentialOf(req) = <<>> THEN "missing_token"
    ELSE IF ~IsValidToken(CredentialOf(req)) THEN "invalid_token"
    ELSE IF ~check_user(Validate(CredentialOf(req)).sub) THEN "rate_limit_user"
    ELSE "ok"

C20_EveryAttemptCharged ==
    [][\A s \in Sess : AtHandshake(s) => \A req \in Requests :
          WsHandlerAuth(s, req)
          => ip_limiters'[req.ip] # ip_limiters[req.ip]]_vars

\* C20, amended: every handshake attempt that the address limiter admits,
\* whether it is then accepted or rejected for origin, missing token,
\* invalid token or user limit, consumes one admission from the bucket of
\* its address and from no other; an attempt that the address limiter
\* denies leaves every address bucket as it was.
C20_AdmittedAttemptCharged ==
    [][\A s \in Sess : AtHandshake(s) => \A req \in Requests :
          WsHandlerAuth(s, req)
          => /\ \A ip \in IPs : ip # req.ip => ip_limiters'[ip] = ip_limiters[ip]
             /\ check_ip(req.ip)
                  => /\ ip_limiters'[req.ip] # ip_limiters[req.ip]
                     /\ ip_limiters'[req.ip]
                          = GcraNext(ip_limiters[req.ip], now, ReplenishIp, BurstIp)
             /\ ~check_ip(req.ip)
                  => /\ ip_limiters' = ip_limiters
                     /\ resp'.reason = "rate_limit_ip"]_vars

C20_Witness ==
    /\ resp.reason \in {"origin_not_allowed", "missing_token", "invalid_token"}
    /\ \A s \in Sess : pc[s] = "idle"
    /\ metrics.rate_limit_hits = 0
    /\ \E ip \in IPs : ~check_ip(ip)

\* The position of a lifecycle state in the order Connecting, Active,
\* Closing, Closed.
StateRank(st) ==
    CASE st = "Connecting" -> 0
      [] st = "Active" -> 1
      [] st = "Closing" -> 2
      [] st = "Closed" -> 3

\* C21: the lifecycle state of a connection only moves forward in the order
\* Connecting, Active, Closing, Closed: no step takes a registered
\* connection to an earlier state or out of Closed, and an id that has left
\* the registry is not registered again.
C21_StateOnlyForward ==
    /\ [][\A c \in DOMAIN connections :
            /\ c \in DOMAIN connections'
                 => /\ StateRank(connections'[c].state)
                         >= StateRank(connections[c].state)
                    /\ connections[c].state = "Closed"
                         => connections'[c].state = "Closed"
            /\ c < CONNECTION_COUNTER']_vars
    /\ [][\A c \in DOMAIN connections' \ DOMAIN connections :
            \A s \in Sess : pc[s] \in {"done", "checkroom", "removeroom"}
                                 => h[s].conn # c]_vars

C21_Witness ==
    \E s \in Sess :
        /\ pc[s] = "unregister"
        /\ h[s].conn \in DOMAIN connections
        /\ connections[h[s].conn].state = "Closed"
        /\ connections[h[s].conn].messages_received >= 2
        /\ fwd[s] = "aborting"

\* C22: on termination the state of the connection passes through Closing
\* and then Closed before the entry leaves the registry: an entry becomes
\* Closed only from Closing and only once, and it is removed only when
\* Closed.
C22_ClosingThenClosed ==
    [][\A c \in DOMAIN connections :
          /\ (c \in DOMAIN connections'
                /\ connections'[c].state = "Closed"
                /\ connections[c].state # "Closed")
               => connections[c].state = "Closing"
          /\ c \notin DOMAIN connections' => connections[c].state = "Closed"]_vars

\* C23: unregister_connection and remove_connection applied to an id that
\* is not (or no longer) present change nothing and record no
\* disconnection; applying either twice gives what applying it once gives,
\* and the active-connections gauge always equals the number of entries.
C23_CleanupIdempotent ==
    /\ [][\A c \in CleanupIds :
            ((CallUnregisterConnection(c) /\ c \notin DOMAIN connections)
               \/ (CallRemoveConnection(c) /\ c \notin DOMAIN message_limiters))
            => vars' = vars]_vars
    /\ [](\A c \in CleanupIds :
            /\ unregister_connection(unregister_connection(connections, c), c)
                 = unregister_connection(connections, c)
            /\ unregister_metrics(
                    unregister_metrics(metrics, connections, c),
                    unregister_connection(connections, c), c)
                 = unregister_metrics(metrics, connections, c)
            /\ remove_connection(remove_connection(message_limiters, c), c)
                 = remove_connection(message_limiters, c))
    /\ [](metrics.connections_active = Cardinality(DOMAIN connections))

C23_Witness ==
    /\ CONNECTION_COUNTER = Cardinality(ConnKeys)
    /\ DOMAIN connections = {1}
    /\ metrics.connections_active = 1
    /\ Len(verdicts.message[0]) > 0
    /\ DOMAIN message_limiters = {1}

\* The element is the bearer marker in some letter case.
IsMarker(el) == el.core \in {Bearer, <<"B", "e", "a", "r", "e", "r">>}

\* The token the two accepted header shapes carry: the second element after
\* a marker, or the only element when it is neither empty nor the marker.
ExpectedToken(shape) ==
    IF Len(shape) >= 2 /\ IsMarker(shape[1]) THEN shape[2].core
    ELSE IF Len(shape) = 1 /\ shape[1].core # <<>> /\ ~IsMarker(shape[1])
         THEN shape[1].core
    ELSE <<>>

\* C24: extract_token_from_protocol returns the second element of a header
\* whose first element is the bearer marker in any letter case, and the
\* single element of a header that has one non-empty element other than
\* the marker, blanks around elements ignored; for every other shape it
\* returns the empty string.  A handshake whose header gives the empty
\* string and that passed the address and origin steps is rejected as
\* missing_token with 403; no other header is.
C24_TokenExtraction ==
    /\ [](verdicts.token # <<>>
            => verdicts.token[1] = ExpectedToken(verdicts.shape))
    /\ [][\A s \in Sess : AtHandshake(s) => \A origin \in Origins :
            LET req == [ip |-> "ip1", origin |-> origin,
                        protocol |-> HeaderOf(verdicts.shape)]
            IN  (WsHandlerAuth(s, req) /\ check_ip(req.ip) /\ OriginAcceptable(req))
                => IF ExpectedToken(verdicts.shape) = <<>>
                   THEN /\ resp'.reason = "missing_token"
                        /\ resp'.status = 403
                        /\ pc'[s] = "idle"
                   ELSE pc'[s] = "idle" => resp'.reason # "missing_token"]_vars

C24_Witness ==
    /\ Len(verdicts.shape) = 2
    /\ IsMarker(verdicts.shape[1])
    /\ verdicts.shape[1].padded
    /\ verdicts.shape[2].core = <<>>
    /\ verdicts.token = << <<>> >>
    /\ resp.reason = "missing_token"

\* The Origin header of the request is present and equals no entry of the
\* configured allow-list.
OriginOffList(req) ==
    /\ req.origin # NoOrigin
    /\ \A i \in 1..Len(config.allowed_origins) :
          config.allowed_origins[i] # req.origin

C26_ExhaustedUntilRefill ==
    /\ [][\A s \in Sess : AtHandshake(s) => \A req \in Requests :
            (WsHandlerAuth(s, req) /\ ~check_ip(req.ip))
            => /\ resp'.status = 429
               /\ resp'.reason = "rate_limit_ip"
               /\ pc'[s] = "idle"
               /\ ip_limiters' = ip_limiters]_vars
    /\ [][\A ip \in IPs :
            (~check_ip(ip) /\ now' = now)
            => ~GcraAllowed(ip_limiters'[ip], now', ReplenishIp, BurstIp)]_vars
    /\ [][\A ip \in IPs :
            Tick => GcraAllowed(ip_limiters'[ip], now', ReplenishIp, BurstIp)]_vars
    /\ [](\A ip \in IPs :
            GcraAllowed(ip_limiters[ip], now + ReplenishIp, ReplenishIp, BurstIp))
    /\ [][\A s \in Sess : AtHandshake(s) => \A req \in Requests :
            (WsHandlerAuth(s, req) /\ check_ip(req.ip))
            => (pc'[s] = "idle" => resp'.reason # "rate_limit_ip")]_vars

C26_Witness ==
    /\ ticks = 1
    /\ metrics.rate_limit_hits = 1
    /\ resp.reason = "rate_limit_ip"
    /\ ip_limiters["ip2"] = NoBucket
    /\ CONNECTION_COUNTER = BurstIp + 1

\* C27: every connection a handshake inserted into the Connection Registry
\* is eventually removed from it once its client has gone away, also when
\* the protocol upgrade never completes after the registration.
C27_EveryEntryRemoved ==
    \A c \in ConnKeys :
        (c \in DOMAIN connections) ~> (c \notin DOMAIN connections)

\* C28: while the inbound loop of a session runs (and from its
\* registration on), the connection id of the session is in the Connection
\* Registry with state Active; an entry is removed or leaves Active only
\* in a cleanup step of the session that owns it.
C28_LoopImpliesActiveEntry ==
    /\ [](\A s \in Sess :
            pc[s] \in {"upgrading", "loop"}
            => /\ h[s].conn \in DOMAIN connections
               /\ connections[h[s].conn].state = "Active"
               /\ connections[h[s].conn].user_id = h[s].user
               /\ connections[h[s].conn].room_id = h[s].room)
    /\ [][\A c \in DOMAIN connections :
            (c \notin DOMAIN connections'
               \/ connections'[c].state # connections[c].state)
            => \E s \in Sess :
                  /\ h[s].conn = c
                  /\ pc[s] \in {"cleanup", "unregister"}
                  /\ pc'[s] # pc[s]]_vars

C28_Witness ==
    \E s, u \in Sess :
        /\ pc[s] = "loop"
        /\ connections[h[s].conn].state = "Active"
        /\ connections[h[s].conn].messages_sent >= 1
        /\ connections[h[s].conn].messages_received >= 1
        /\ pc[u] = "done"
        /\ h[u].conn \notin DOMAIN connections

\* The step is an inbound text or binary frame of the session owning
\* connection c, and check_message admits it.
AdmittedFrame(c) ==
    \E s \in Sess :
        /\ h[s].conn = c
        /\ pc[s] = "loop"
        /\ check_message(c)
        /\ (RecvText(s) \/ RecvBinary(s))

\* C29: a connection is registered with both counters at 0; while it is
\* registered no step lowers either counter; messages_sent grows by one in
\* exactly the steps that are an inbound text or binary frame admitted by
\* check_message, so it equals the number of such frames.
C29_CountersMonotonic ==
    /\ [][\A c \in DOMAIN connections' \ DOMAIN connections :
            /\ connections'[c].messages_sent = 0
            /\ connections'[c].messages_received = 0]_vars
    /\ [][\A c \in DOMAIN connections \cap DOMAIN connections' :
            /\ connections'[c].messages_received >= connections[c].messages_received
            /\ connections'[c].messages_sent
                 = connections[c].messages_sent
                     + (IF AdmittedFrame(c) THEN 1 ELSE 0)]_vars

C29_Witness ==
    \E s \in Sess :
        /\ pc[s] = "loop"
        /\ connections[h[s].conn].messages_sent = 2
        /\ connections[h[s].conn].messages_received = 2
        /\ metrics.rate_limit_hits = 1
        /\ metrics.messages_sent = 2

\* The sessions that have been given a connection id.
Identified == {s \in Sess : h[s].conn # NoConn}

\* C30: connection ids are unique: no two sessions, however their
\* handshakes interleave, hold the same id; every id handed out is below
\* the counter; registering a connection adds a new key to the Connection
\* Registry and leaves every other entry as it was.
C30_ConnectionIdsUnique ==
    /\ [](\A s, u \in Identified : s # u => h[s].conn # h[u].conn)
    /\ [](\A s \in Identified : h[s].conn < CONNECTION_COUNTER)
    /\ [](Cardinality(Identified) = CONNECTION_COUNTER)
    /\ [][\A s \in Sess :
            (pc[s] = "register" /\ pc'[s] = "upgrading")
            => /\ h[s].conn \notin DOMAIN connections
               /\ \A c \in DOMAIN connections :
                     c \in DOMAIN connections' /\ connections'[c] = connections[c]]_vars

C30_Witness ==
    /\ CONNECTION_COUNTER = NSess
    /\ \A s \in Sess : pc[s] = "upgrading"
    /\ Cardinality({h[s].conn : s \in Sess}) = NSess
    /\ Cardinality(DOMAIN connections) = NSess

\* C31: a step of the room sweep removes only rooms that have no
\* subscriber at the moment of the removal, and leaves every room with a
\* subscriber in the Room Registry.
C31_SweepRemovesOnlyEmpty ==
    [][\A r \in RoomIds :
          (SweepRemove /\ rooms[r] # NoChan /\ rooms'[r] = NoChan)
          => receiver_count(rooms[r]) = 0]_vars

\* The number of messages written to the sockets of sessions 1..n.
RECURSIVE Written(_)
Written(n) == IF n = 0 THEN 0 ELSE Len(inbox[n]) + Written(n - 1)

\* C32: the message-received metric equals the number of messages written
\* to sockets; a successful write adds one to the metric and to the
\* received counter of the connection; a failed write adds nothing, ends
\* the forward task, and the task writes nothing afterwards.
C32_ReceivedCountsWrites ==
    /\ [](metrics.messages_received = Written(NSess))
    /\ [][\A s \in Sess :
            /\ ForwardDeliver(s)
                 => /\ Len(inbox'[s]) = Len(inbox[s]) + 1
                    /\ metrics'.messages_received = metrics.messages_received + 1
                    /\ h[s].conn \in DOMAIN connections
                         => connections'[h[s].conn].messages_received
                              = connections[h[s].conn].messages_received + 1
            /\ ForwardWriteFail(s)
                 => /\ metrics' = metrics
                    /\ connections' = connections
                    /\ inbox' = inbox
                    /\ fwd'[s] = "failed"
                    /\ rx'[s] = NoRx
            /\ fwd[s] = "failed"
                 => /\ fwd'[s] = "failed"
                    /\ inbox'[s] = inbox[s]
                    /\ rx'[s] = NoRx]_vars
    /\ [](\A s \in Sess :
            (Registered(s) /\ h[s].conn \in DOMAIN connections)
            => connections[h[s].conn].messages_received = Len(inbox[s]))

C32_Witness ==
    \E s \in Sess :
        /\ fwd[s] = "failed"
        /\ pc[s] = "loop"
        /\ Len(inbox[s]) = 1
        /\ connections[h[s].conn].messages_received = 1
        /\ Len(chans[h[s].sender].log) = MaxMsgs
        /\ metrics.messages_received = 2

\* C33: a Pong frame changes the last-activity timestamp of the session's
\* own connection and nothing else; a Ping frame changes no variable:
\* neither touches a limiter bucket, a counter, a metric or the room
\* channel, and the session stays in its loop.
C33_PingPongEffects ==
    [][\A s \in Sess : pc[s] = "loop" =>
          /\ RecvPing(s) => vars' = vars
          /\ RecvPong(s)
               => /\ <<config, verdicts, now, ticks, pc, h, resp, fwd, rx, rooms,
                       chans, CONNECTION_COUNTER, ip_limiters, user_limiters,
                       message_limiters, metrics, inbox, sweep>>'
                      = <<config, verdicts, now, ticks, pc, h, resp, fwd, rx, rooms,
                          chans, CONNECTION_COUNTER, ip_limiters, user_limiters,
                          message_limiters, metrics, inbox, sweep>>
                  /\ DOMAIN connections' = DOMAIN connections
                  /\ \A c \in DOMAIN connections :
                        IF c = h[s].conn
                        THEN connections'[c]
                               = [connections[c] EXCEPT !.last_activity = now]
                        ELSE connections'[c] = connections[c]]_vars

C33_Witness ==
    \E s \in Sess :
        /\ pc[s] = "loop"
        /\ connections[h[s].conn].last_activity > connections[h[s].conn].connected_at
        /\ connections[h[s].conn].messages_sent = 0
        /\ connections[h[s].conn].messages_received = 0
        /\ h[s].conn \notin DOMAIN message_limiters
        /\ Len(chans[h[s].sender].log) = 0

\* The lower-case hex text of each binary payload, written out by hand.
ExpectedHex(data) ==
    CASE data = <<>> -> ""
      [] data = <<222, 173>> -> "dead"
      [] data = <<0, 15>> -> "000f"
      [] data = <<255, 16>> -> "ff10"
      [] data = <<171, 205, 239>> -> "abcdef"

ExpectedEnvelope(data) ==
    "{\"type\":\"binary\",\"data\":\"" \o ExpectedHex(data) \o "\"}"

\* What an inbound frame whose published text is body does when
\* check_message is asked about it: the limiter is charged; when admitted,
\* the sent counter and the sent metric grow by one and body is sent to the
\* channel; when denied, nothing is counted or sent.
FrameEffect(s, body) ==
    /\ message_limiters' = check_message_update(h[s].conn)
    /\ pc' = pc
    /\ IF check_message(h[s].conn)
       THEN /\ connections'[h[s].conn].messages_sent
                 = connections[h[s].conn].messages_sent + 1
            /\ metrics'.messages_sent = metrics.messages_sent + 1
            /\ chans' = send(chans, h[s].sender,
                             [from |-> h[s].conn,
                              n |-> metrics.messages_sent + 1,
                              body |-> body])
       ELSE /\ connections' = connections
            /\ chans' = chans
            /\ metrics'.messages_sent = metrics.messages_sent

\* C34: a binary frame is admitted and counted as a text frame is, and
\* what it publishes is the JSON envelope around the lower-case hex text
\* of its bytes; no message in a room carries anything but a text frame's
\* text or such an envelope.
C34_BinaryPublishedAsHex ==
    /\ [][\A s \in Sess : pc[s] = "loop" =>
            /\ \A data \in ByteStrings :
                  RecvBinaryData(s, data) => FrameEffect(s, ExpectedEnvelope(data))
            /\ \A text \in TextPayloads :
                  RecvPayload(s, text, MaxMsgs) => FrameEffect(s, text)]_vars
    /\ [](\A c \in 1..Len(chans) : \A i \in 1..Len(chans[c].log) :
            chans[c].log[i].body
              \in TextPayloads \cup {ExpectedEnvelope(data) : data \in ByteStrings})

C34_Witness ==
    \E s \in Sess :
        /\ pc[s] = "loop"
        /\ connections[h[s].conn].messages_sent = 2
        /\ Len(inbox[s]) = 2
        /\ inbox[s][1].body = "{\"type\":\"binary\",\"data\":\"000f\"}"
        /\ inbox[s][2].body \in TextPayloads

\* C35: with an empty allow-list is_origin_allowed accepts every origin,
\* and a handshake with an Origin header is never rejected for its origin:
\* it is answered as the same request without the header would be.
C35_EmptyListAllowsAll ==
    /\ [](config.allowed_origins = <<>>
            => \A o \in Origins : is_origin_allowed(config.allowed_origins, o))
    /\ [][\A s \in Sess : AtHandshake(s) => \A req \in Requests :
            (WsHandlerAuth(s, req) /\ req.origin # NoOrigin
               /\ config.allowed_origins = <<>>)
            => LET bare == [req EXCEPT !.origin = NoOrigin]
               IN  IF FirstFailingStep(bare) = "ok"
                   THEN pc'[s] = "getroom"
                   ELSE /\ pc'[s] = "idle"
                        /\ resp'.reason = FirstFailingStep(bare)
                        /\ resp'.reason # "origin_not_allowed"]_vars

C35_Witness ==
    /\ config.allowed_origins = <<>>
    /\ \A s \in Sess : pc[s] = "loop"
    /\ resp.status = 101
    /\ Cardinality(DOMAIN connections) = NSess

C37_BurstIsRateTimesMultiplier ==
    ticks = 0
    => /\ \A ip \in IPs :
             FirstOnly(verdicts.ip[ip],
                       config.ip_connections_per_minute * config.burst_multiplier)
       /\ \A u \in Users :
             FirstOnly(verdicts.user[u],
                       config.user_connections_per_minute * config.burst_multiplier)
       /\ \A c \in ConnKeys :
             FirstOnly(verdicts.message[c],
                       config.messages_per_second * config.burst_multiplier)

C37_Witness ==
    /\ config.burst_multiplier = 2
    /\ config.ip_connections_per_minute = 2
    /\ ticks = 0
    /\ verdicts.ip["ip1"] = <<TRUE, TRUE, TRUE, TRUE, FALSE>>
    /\ verdicts.user["u1"] = <<TRUE, TRUE, TRUE, TRUE, FALSE>>
    /\ verdicts.message[0] = <<TRUE, TRUE, TRUE, TRUE, FALSE>>

\* The session has passed its unregister_connection call.
Unregistered(s) == pc[s] \in {"checkroom", "removeroom", "done"}

\* C38: update_connection never inserts.  An id enters the Connection
\* Registry only in the register step of its own handshake; a forward
\* task that reports a message for an id that is not in the registry
\* leaves the registry as it is; and the id of a session that has
\* unregistered is never in the registry again.
C38_UpdateNeverInserts ==
    /\ [][\A c \in DOMAIN connections' \ DOMAIN connections :
            \E s \in Sess : /\ h[s].conn = c
                             /\ pc[s] = "register"
                             /\ pc'[s] = "upgrading"]_vars
    /\ [][\A s \in Sess :
            (ForwardDeliver(s) /\ h[s].conn \notin DOMAIN connections)
            => connections' = connections]_vars
    /\ [](\A s \in Sess : Unregistered(s) => h[s].conn \notin DOMAIN connections)

C38_Witness ==
    \E s \in Sess :
        /\ pc[s] = "done"
        /\ fwd[s] = "aborting"
        /\ h[s].conn \notin DOMAIN connections
        /\ Len(inbox[s]) = 1
        /\ RecvReady(rx[s])
        /\ \E u \in Sess : /\ pc[u] = "loop"
                           /\ h[u].conn \in DOMAIN connections
                           /\ connections[h[u].conn].messages_sent = 2

\* C39: in every reachable state the number of room-created events minus
\* the number of room-destroyed events equals the number of rooms in the
\* Room Registry.
C39_RoomMetricsConsistent ==
    metrics.rooms_created - metrics.rooms_destroyed
        = Cardinality({r \in RoomIds : rooms[r] # NoChan})

====
